---- MODULE Spec2Model ----
(***************************************************************************)
(* The XML-to-CSV flattener (CLI variant): one run of main() over one      *)
(* input file, the Expat callbacks startElement/endElement on the session   *)
(* (Data + ParserContext), the growable tag stack and pending-row buffer,   *)
(* and the per-chunk flush of buffered rows to the output file.             *)
(***************************************************************************)
EXTENDS Integers, Sequences, FiniteSets, TLC

VARIABLES
    pc,             \* position of main(): args, fopen_in, fopen_out, header, fread, parse, flush, cleanup, done
    exitStatus,     \* "running", "EXIT_SUCCESS", "EXIT_FAILURE" or "SIGNAL" (abnormal end)
    exitPath,       \* which return statement (or fault) ended the run
    family,         \* the family of input documents this run draws from
    argv,           \* the command line: argv[1 .. argc-1], each a sequence of characters
    verboseFlag,    \* verboseFlag of main()
    remaining,      \* bytes of the input file not yet read
    bytesRead,      \* result of the last fread
    sess,           \* the session: Data data + ParserContext context of main()
    ref,            \* the same session fed the same events as ONE chunk (never flushed)
    open,           \* the tokenizer's stack of open elements
    rootDone,       \* the document element has been closed
    outFile,        \* lines written to the output file, in order
    console,        \* lines printed on standard output, in order
    twin,           \* output and exit status of the run of the same command line with -v toggled
    res,            \* the streams and the parser: none, open/created, closed/freed
    events,         \* history: the callbacks delivered so far
    emitted,        \* history: rows formatted by saveOneElement, in order
    emittedBefore,  \* history: how many of them were emitted in chunks already flushed
    rowChunk,       \* history: for each emitted row, the number of the chunk it came in
    chunkNo,        \* history: chunks read so far
    expectRows,     \* history: leaf-kind elements opened below a category element
    expect,         \* history: for each emitted row, the stack and the open elements it was emitted at
    odd,            \* history: an emitor or category-named element was opened inside the open category
    tm,             \* the broken-down local time returned by localtime()
    two             \* two sessions in one process, each with a copy that runs alone

vars == <<pc, exitStatus, exitPath, family, argv, verboseFlag, remaining, bytesRead,
          sess, ref, open, rootDone, outFile, console, twin, res, events, emitted,
          emittedBefore, rowChunk, chunkNo, expectRows, expect, odd, tm, two>>

\* what a run of main() is given and never changes
inputVars == <<family, argv, tm, two>>

\* the variables of a run of main()
mainVars == <<pc, exitStatus, exitPath, family, argv, verboseFlag, remaining, bytesRead,
              sess, ref, open, rootDone, outFile, console, twin, res, events, emitted,
              emittedBefore, rowChunk, chunkNo, expectRows, expect, odd, tm>>

-----------------------------------------------------------------------------
(* Program constants *)

MIN_ARGC == 2
I_INPUT_FILE == 1
I_OUTPUT_FILE == 2
HELP_FLAG == <<"-", "h">>
COMMUNICATS_FLAG == <<"-", "v">>
XML_EXT == <<".", "x", "m", "l">>
CSV_EXT == <<".", "c", "s", "v">>
STR_SIZE == 15
ADD_TAG == 5
ADD_BUFFOR == 5
ONE_TAG_SIZE == 300
BUF_SIZE == 1024

tagFirstNames == {"status", "parametr", "stezenie"}
tagNames == {"auto", "reka", "wartosc", "status", "niepewnosc", "standard"}

(* Bounds of the explored inputs *)

MaxStarts == 3      \* start events of a document of the "any" family
AnyDepth == 3       \* nesting depth of a document of the "any" family
MaxRows == 6        \* leaf elements of a document of the "rows" family
MaxDepth == 6       \* nesting depth of a document of the "deep" family
MaxTwo == 3         \* events delivered to each of two interleaved sessions

-----------------------------------------------------------------------------
(* Values *)

NoTag == "<unset>"          \* a slot of the tag array never written
NoRow == [date |-> "", hour |-> "", path |-> "<unset>", value |-> ""]
GARBAGE == "<garbage>"      \* what a read through an invalid pointer may yield
UNINIT == "<uninit>"        \* a char array never written: its bytes are indeterminate
WILD == -1                  \* a pointer whose bytes were overwritten
NULL == 0

LongName == "EMITOR_NUMBER_THREE"       \* 19 bytes: does not fit char emitor[STR_SIZE]
LongValue == "1234567890.123456"        \* 17 bytes: does not fit char value[STR_SIZE]

\* 300 bytes: with any other label it does not fit char oneTag[ONE_TAG_SIZE]
LongTyp == "typ_of_30_bytes_0123456789abcd_typ_of_30_bytes_0123456789abcd_typ_of_30_bytes_0123456789abcd_typ_of_30_bytes_0123456789abcd_typ_of_30_bytes_0123456789abcd_typ_of_30_bytes_0123456789abcd_typ_of_30_bytes_0123456789abcd_typ_of_30_bytes_0123456789abcd_typ_of_30_bytes_0123456789abcd_typ_of_30_bytes_0123456789abcd_"

Attr(k, v) == <<k, v>>

\* start events (name, attribute list in document order) of the "any" family
AnyStarts ==
    { [name |-> "emitor", attr |-> <<Attr("nazwa", "K3")>>],
      [name |-> "emitor", attr |-> <<Attr("nazwa", LongName)>>],
      [name |-> "status", attr |-> <<>>],
      [name |-> "status", attr |-> <<Attr("typ", "reka")>>],
      [name |-> "reka",   attr |-> <<Attr("pkt", "1012")>>],
      [name |-> "reka",   attr |-> <<Attr("pkt", LongValue)>>],
      [name |-> "opis",   attr |-> <<>>] }

RowsStarts(depth) ==
    CASE depth = 0 -> { [name |-> "emitor", attr |-> <<Attr("nazwa", "K3")>>] }
      [] depth = 1 -> { [name |-> "parametr", attr |-> <<Attr("typ", "VSS")>>] }
      [] OTHER     -> { [name |-> "wartosc", attr |-> <<Attr("pkt", "1167")>>] }

DeepStarts(depth) ==
    CASE depth = 0 -> { [name |-> "emitor", attr |-> <<Attr("nazwa", "K3")>>] }
      [] depth = 1 -> { [name |-> "stezenie", attr |-> <<Attr("typ", "CO2")>>] }
      [] OTHER     -> { [name |-> "opis", attr |-> <<>>],
                        [name |-> "wartosc", attr |-> <<Attr("pkt", "1319")>>] }

\* start events whose attribute list holds the same key twice, as a tokenizer
\* that does not reject a repeated attribute delivers them
DupStarts ==
    { [name |-> "emitor", attr |-> <<Attr("nazwa", "K3"), Attr("nazwa", "K4")>>],
      [name |-> "status", attr |-> <<Attr("typ", "reka"), Attr("typ", "auto")>>],
      [name |-> "reka",   attr |-> <<Attr("pkt", "1012"), Attr("pkt", "7")>>] }

\* start events of the "long" family: a category with a long typ, then a leaf
LongStarts(depth) ==
    CASE depth = 0 -> { [name |-> "status", attr |-> <<Attr("typ", LongTyp)>>] }
      [] OTHER     -> { [name |-> "wartosc", attr |-> <<Attr("pkt", "1167")>>] }

Families == {"any", "rows", "deep", "long"}

InputLens(f) ==
    CASE f = "any"  -> {0, 700, BUF_SIZE, BUF_SIZE + 700}
      [] f = "rows" -> {700, 2 * BUF_SIZE + 700}
      [] OTHER      -> {700}

\* file names, character by character
XmlName == <<"d", ".", "x", "m", "l">>
XmlBakName == <<"d", ".", "x", "m", "l", ".", "b", "a", "k">>
TxtName == <<"d", ".", "t", "x", "t">>
CsvName == <<"o", ".", "c", "s", "v">>

\* command lines that pass the checks of main()
RunArgvs ==
    { <<XmlName, CsvName>>, <<XmlName, CsvName, COMMUNICATS_FLAG>>, <<XmlBakName, CsvName>> }

\* command lines that end the run before any file is opened
StopArgvs ==
    { <<>>, <<XmlName>>, <<HELP_FLAG>>, <<TxtName, HELP_FLAG>>,
      <<XmlName, CsvName, HELP_FLAG>>, <<TxtName, CsvName>>, <<XmlName, TxtName>>,
      <<COMMUNICATS_FLAG, XmlName, CsvName>>, <<XmlName, COMMUNICATS_FLAG>>,
      <<COMMUNICATS_FLAG>>, <<COMMUNICATS_FLAG, HELP_FLAG>> }

Argvs(f) ==
    CASE f = "any"  -> {<<XmlName, CsvName>>} \cup StopArgvs
      [] f = "rows" -> RunArgvs
      [] OTHER      -> {<<XmlName, CsvName>>}

Times == { [tm_year |-> 124, tm_mon |-> 9, tm_mday |-> 1, tm_hour |-> 10] }

\* outcomes of a step whose behaviour the C standard leaves undefined
UBOutcomes == [moved : BOOLEAN, acc : {"ok", "garbage", "crash"}, junk : {"", GARBAGE}]

Min(a, b) == IF a < b THEN a ELSE b

-----------------------------------------------------------------------------
(* Growable arrays *)

valueInArray(val, array) == val \in array

\* relocateMemmory growing one element early, at currentSize + 1 >= allocatedSize
relocateMemmoryEarly(array, currentSize, allocatedSize, increment, moved) ==
    IF currentSize + 1 >= allocatedSize
    THEN [array |-> IF moved \/ array = NULL THEN array + 1 ELSE array,
          allocatedSize |-> allocatedSize + increment]
    ELSE [array |-> array, allocatedSize |-> allocatedSize]

\* realloc(array, ...) when currentSize >= allocatedSize: the block either grows
\* in place or moves (moved), in which case the old block is freed.
relocateMemmory(array, currentSize, allocatedSize, increment, moved) ==
    IF currentSize >= allocatedSize
    THEN [array |-> IF moved \/ array = NULL THEN array + 1 ELSE array,
          allocatedSize |-> allocatedSize + increment]
    ELSE [array |-> array, allocatedSize |-> allocatedSize]

\* data->tags refers to the live block of the tag array
TagsValid(s) == s.tagsPtr = s.tagsBlock

\* Data data; initData(&data): emitor and value are left as they were on the stack.
\* tagsPtr is data->tags, tagsBlock the live block that holds the tag array.
initData ==
    [ emitor |-> UNINIT, value |-> UNINIT,
      tags |-> [i \in 1..ADD_TAG |-> NoTag],
      nTags |-> 0, allocatedTags |-> ADD_TAG,
      tagsPtr |-> 1, tagsBlock |-> 1 ]

\* the session: the ParserContext with the Data it points to; fault marks a
\* run that an invalid access has ended
initParserContext(data) ==
    data @@ [ dataBuffers |-> <<>>, buffPtr |-> NULL, nBuff |-> 0,
              allocatedBuffers |-> 0, fault |-> FALSE ]

\* addTag that stores the label and leaves nTags as it was
addTagKeepsCount(s, tag, o) ==
    IF s.fault THEN s
    ELSE [s EXCEPT !.tags[s.nTags + 1] = tag]

addTag(s, tag, o) ==
    IF s.fault THEN s
    ELSE
    LET r == relocateMemmory(s.tagsPtr, s.nTags, s.allocatedTags, ADD_TAG, o.moved)
        grown == r.allocatedSize > s.allocatedTags
        \* the result of relocateMemmory is discarded: data->tags keeps its value
        s1 == [s EXCEPT !.allocatedTags = r.allocatedSize,
                        !.tagsBlock = IF TagsValid(s) THEN r.array ELSE @,
                        !.tags = IF grown THEN @ \o [i \in 1..ADD_TAG |-> NoTag] ELSE @]
    IN  IF ~TagsValid(s1) /\ o.acc = "crash"
        THEN [s1 EXCEPT !.fault = TRUE]
        ELSE [s1 EXCEPT !.tags[s1.nTags + 1] = tag, !.nTags = @ + 1]

Fmt02(n) == IF n < 10 THEN "0" \o ToString(n) ELSE ToString(n)

\* the loop of saveData started at i = 1: the first label is left out
RECURSIVE JoinTagsFromOne(_, _, _)
JoinTagsFromOne(oneTag, tags, n) ==
    IF n <= 1 THEN oneTag
    ELSE JoinTagsFromOne(oneTag, tags, n - 1) \o "." \o tags[n]

RECURSIVE JoinTags(_, _, _)
JoinTags(oneTag, tags, n) ==
    IF n = 0 THEN oneTag
    ELSE JoinTags(oneTag, tags, n - 1) \o "." \o tags[n]

saveData(t, s, o) ==
    LET seen == IF ~TagsValid(s) /\ o.acc = "garbage"
                THEN [i \in 1..Len(s.tags) |-> GARBAGE]
                ELSE s.tags
    IN  [ date  |-> ToString(t.tm_year + 1900) \o "-" \o Fmt02(t.tm_mon + 1)
                    \o "-" \o Fmt02(t.tm_mday),
          hour  |-> ToString(t.tm_hour),
          path  |-> JoinTags(IF s.emitor = UNINIT THEN o.junk ELSE s.emitor,
                             seen, s.nTags),
          value |-> IF s.value = UNINIT THEN o.junk ELSE s.value ]

\* strcpy and strcat write past char oneTag[ONE_TAG_SIZE] when the path and
\* its terminating zero need more bytes
oneTagOverflow(row) == Len(row.path) + 1 > ONE_TAG_SIZE

\* the allocation loop started at i = 0: the rows already buffered are replaced
saveOneElementFromZero(s, t, o) ==
    IF s.fault THEN s
    ELSE IF oneTagOverflow(saveData(t, s, o)) /\ o.acc = "crash"
    THEN [s EXCEPT !.fault = TRUE]
    ELSE
    LET r == relocateMemmory(s.buffPtr, s.nBuff, s.allocatedBuffers, ADD_BUFFOR, o.moved)
        n == r.allocatedSize
        fresh == [i \in 1..n |-> NoRow]
    IN  [s EXCEPT !.buffPtr = r.array,
                  !.allocatedBuffers = n,
                  !.dataBuffers = [fresh EXCEPT ![s.nBuff + 1] = saveData(t, s, o)],
                  !.nBuff = @ + 1]

saveOneElement(s, t, o) ==
    IF s.fault THEN s
    ELSE IF oneTagOverflow(saveData(t, s, o)) /\ o.acc = "crash"
    THEN [s EXCEPT !.fault = TRUE]
    ELSE
    LET r == relocateMemmory(s.buffPtr, s.nBuff, s.allocatedBuffers, ADD_BUFFOR, o.moved)
        n == r.allocatedSize
        \* every slot from nBuff up gets a fresh 1024-byte buffer
        fresh == [i \in 1..n |-> IF i <= s.nBuff THEN s.dataBuffers[i] ELSE NoRow]
    IN  [s EXCEPT !.buffPtr = r.array,
                  !.allocatedBuffers = n,
                  !.dataBuffers = [fresh EXCEPT ![s.nBuff + 1] = saveData(t, s, o)],
                  !.nBuff = @ + 1]

-----------------------------------------------------------------------------
(* The Expat callbacks *)

\* strcpy(data->emitor, v): char emitor[15] sits at offset 0, char **tags at 16
strcpyEmitor(s, v) ==
    [s EXCEPT !.emitor = v,
              !.tagsPtr = IF Len(v) > STR_SIZE THEN WILD ELSE @]

\* strcpy(data->value, v): char value[15] is the last member of Data
strcpyValue(s, v, o) ==
    IF Len(v) > STR_SIZE /\ o.acc = "crash"
    THEN [s EXCEPT !.fault = TRUE]
    ELSE [s EXCEPT !.value = v]

RECURSIVE ScanNazwa(_, _, _)
ScanNazwa(s, attr, i) ==
    IF i > Len(attr) THEN s
    ELSE ScanNazwa(IF attr[i][1] = "nazwa" THEN strcpyEmitor(s, attr[i][2]) ELSE s,
                   attr, i + 1)

Keyed(attr, key) == {i \in 1..Len(attr) : attr[i][1] = key}
First(S) == CHOOSE i \in S : \A j \in S : i <= j

\* startElement taking the category branch for a category name at any depth
startElementCategoryAnywhere(s, name, attr, t, o) ==
    IF s.fault THEN s
    ELSE IF name = "emitor"
    THEN ScanNazwa(s, attr, 1)
    ELSE IF valueInArray(name, tagFirstNames)
    THEN LET s1 == addTag(s, name, o)
             typ == Keyed(attr, "typ")
         IN  IF typ = {} THEN s1 ELSE addTag(s1, attr[First(typ)][2], o)
    ELSE IF s.nTags # 0
    THEN LET s1 == addTag(s, name, o)
             pkt == Keyed(attr, "pkt")
         IN  IF valueInArray(name, tagNames)
             THEN saveOneElement(
                      IF pkt = {} THEN s1 ELSE strcpyValue(s1, attr[First(pkt)][2], o),
                      t, o)
             ELSE s1
    ELSE s

\* startElement pushing a nested element only when its name is a leaf kind
startElementPushLeafOnly(s, name, attr, t, o) ==
    IF s.fault THEN s
    ELSE IF name = "emitor"
    THEN ScanNazwa(s, attr, 1)
    ELSE IF s.nTags = 0 /\ valueInArray(name, tagFirstNames)
    THEN LET s1 == addTag(s, name, o)
             typ == Keyed(attr, "typ")
         IN  IF typ = {} THEN s1 ELSE addTag(s1, attr[First(typ)][2], o)
    ELSE IF s.nTags # 0 /\ valueInArray(name, tagNames)
    THEN LET s1 == addTag(s, name, o)
             pkt == Keyed(attr, "pkt")
         IN  saveOneElement(
                 IF pkt = {} THEN s1 ELSE strcpyValue(s1, attr[First(pkt)][2], o),
                 t, o)
    ELSE s

\* startElement formatting a row for a leaf-kind name at the empty stack as well
startElementLeafAnywhere(s, name, attr, t, o) ==
    IF s.fault THEN s
    ELSE IF name = "emitor"
    THEN ScanNazwa(s, attr, 1)
    ELSE IF s.nTags = 0 /\ valueInArray(name, tagFirstNames)
    THEN LET s1 == addTag(s, name, o)
             typ == Keyed(attr, "typ")
         IN  IF typ = {} THEN s1 ELSE addTag(s1, attr[First(typ)][2], o)
    ELSE IF s.nTags # 0 \/ valueInArray(name, tagNames)
    THEN LET s1 == addTag(s, name, o)
             pkt == Keyed(attr, "pkt")
         IN  IF valueInArray(name, tagNames)
             THEN saveOneElement(
                      IF pkt = {} THEN s1 ELSE strcpyValue(s1, attr[First(pkt)][2], o),
                      t, o)
             ELSE s1
    ELSE s

startElement(s, name, attr, t, o) ==
    IF s.fault THEN s
    ELSE IF name = "emitor"
    THEN ScanNazwa(s, attr, 1)
    ELSE IF s.nTags = 0 /\ valueInArray(name, tagFirstNames)
    THEN LET s1 == addTag(s, name, o)
             typ == Keyed(attr, "typ")
         IN  IF typ = {} THEN s1 ELSE addTag(s1, attr[First(typ)][2], o)
    ELSE IF s.nTags # 0
    THEN LET s1 == addTag(s, name, o)
             pkt == Keyed(attr, "pkt")
         IN  IF valueInArray(name, tagNames)
             THEN saveOneElement(
                      IF pkt = {} THEN s1 ELSE strcpyValue(s1, attr[First(pkt)][2], o),
                      t, o)
             ELSE s1
    ELSE s

\* endElement without the second decrement (as in the earlier variants)
endElementSinglePop(s, name) ==
    IF s.nTags > 0 THEN [s EXCEPT !.nTags = @ - 1] ELSE s

\* endElement clearing the emitter name when it pops
endElementClearsEmitor(s, name) ==
    IF s.nTags > 0
    THEN IF s.nTags - 1 = 1 /\ valueInArray(name, tagFirstNames)
         THEN [s EXCEPT !.nTags = @ - 2, !.emitor = ""]
         ELSE [s EXCEPT !.nTags = @ - 1, !.emitor = ""]
    ELSE s

\* endElement popping only for the elements whose start pushed a label
endElementBalanced(s, name) ==
    IF s.nTags > 0 /\ name # "emitor"
    THEN IF s.nTags - 1 = 1 /\ valueInArray(name, tagFirstNames)
         THEN [s EXCEPT !.nTags = @ - 2]
         ELSE [s EXCEPT !.nTags = @ - 1]
    ELSE s

endElement(s, name) ==
    IF s.nTags > 0
    THEN IF s.nTags - 1 = 1 /\ valueInArray(name, tagFirstNames)
         THEN [s EXCEPT !.nTags = @ - 2]
         ELSE [s EXCEPT !.nTags = @ - 1]
    ELSE s

-----------------------------------------------------------------------------
(* The tokenizer's view of the document *)

InCategory == \E i \in 1..Len(open) : open[i].cat

nStarts == Cardinality({i \in 1..Len(events) : events[i].kind = "start"})

Allowed(ev) ==
    CASE family = "any"  -> /\ ev \in AnyStarts
                            /\ Len(open) < AnyDepth
                            /\ nStarts < MaxStarts
      [] family = "rows" -> /\ ev \in RowsStarts(Len(open))
                            /\ Len(open) <= 2
                            /\ nStarts < MaxRows + 2
      [] family = "long" -> /\ ev \in LongStarts(Len(open))
                            /\ Len(open) <= 1
                            /\ nStarts < MaxStarts
      [] family = "dup"  -> /\ ev \in DupStarts
                            /\ Len(open) < AnyDepth
                            /\ nStarts < MaxStarts
      [] OTHER           -> /\ ev \in DeepStarts(Len(open))
                            /\ Len(open) < MaxDepth
                            /\ nStarts < MaxDepth + 1

Header == [date |-> "YYYY-MM-DD", hour |-> "Hour", path |-> "Emitor.Tags",
           value |-> "Pkt_Value"]

\* the text print_help() prints, as one console line
Usage == [date |-> "", hour |-> "", path |-> "Uzycie: expat_example <plik_wejsciowy.xml> <plik_wyjsciowy.csv> [-v]",
          value |-> ""]

Exit(status, path) ==
    /\ pc' = "done"
    /\ exitStatus' = status
    /\ exitPath' = path

-----------------------------------------------------------------------------
(* main() *)

\* strstr(haystack, needle) != NULL
strstr(haystack, needle) ==
    \E i \in 1..(Len(haystack) - Len(needle) + 1) :
        SubSeq(haystack, i, i + Len(needle) - 1) = needle

\* the checks of main() in the order of a scan for a missing -h: the argument
\* count first, the -h scan after it
argCheckCountFirst(av) ==
    IF Len(av) + 1 < MIN_ARGC + 1 THEN "too_few"
    ELSE IF \E i \in 1..Len(av) : av[i] = HELP_FLAG THEN "help"
    ELSE IF ~strstr(av[I_INPUT_FILE], XML_EXT) THEN "bad_input_name"
    ELSE IF ~strstr(av[I_OUTPUT_FILE], CSV_EXT) THEN "bad_output_name"
    ELSE "ok"

\* the checks main() makes on argv[1 .. argc-1] (av[i] is argv[i]), in order:
\* the -h scan, the argument count, the two file names
\* the checks of main() taking the file names from the first two arguments
\* that are not -v
argCheckSkipsFlags(av) ==
    LET names == SelectSeq(av, LAMBDA a : a # COMMUNICATS_FLAG) IN
    IF \E i \in 1..Len(av) : av[i] = HELP_FLAG THEN "help"
    ELSE IF Len(names) + 1 < MIN_ARGC + 1 THEN "too_few"
    ELSE IF ~strstr(names[I_INPUT_FILE], XML_EXT) THEN "bad_input_name"
    ELSE IF ~strstr(names[I_OUTPUT_FILE], CSV_EXT) THEN "bad_output_name"
    ELSE "ok"

argCheck(av) ==
    IF \E i \in 1..Len(av) : av[i] = HELP_FLAG THEN "help"
    ELSE IF Len(av) + 1 < MIN_ARGC + 1 THEN "too_few"
    ELSE IF ~strstr(av[I_INPUT_FILE], XML_EXT) THEN "bad_input_name"
    ELSE IF ~strstr(av[I_OUTPUT_FILE], CSV_EXT) THEN "bad_output_name"
    ELSE "ok"

\* verboseFlag after the scan of the arguments
verboseScan(av) == \E i \in 1..Len(av) : av[i] = COMMUNICATS_FLAG

StatusOf(check) ==
    CASE check = "help" -> "EXIT_SUCCESS"
      [] check = "ok"   -> "running"
      [] OTHER          -> "EXIT_FAILURE"

\* the same command line with a trailing -v taken away, or with -v added at the end
ToggleV(av) ==
    IF Len(av) > I_OUTPUT_FILE /\ av[Len(av)] = COMMUNICATS_FLAG
    THEN SubSeq(av, 1, Len(av) - 1)
    ELSE Append(av, COMMUNICATS_FLAG)

\* printf with every line going to the console, whatever the flag
echoAlways(v, con, line) == Append(con, line)

\* printf(verboseFlag ? format : "", line)
echo(v, con, line) == IF v THEN Append(con, line) ELSE con

RECURSIVE echoAll(_, _, _)
echoAll(v, con, lines) ==
    IF lines = <<>> THEN con
    ELSE echoAll(v, echo(v, con, lines[1]), SubSeq(lines, 2, Len(lines)))

\* the header written once more
writeHeaderTwice(v, f, ok) ==
    [ outFile |-> IF ok THEN f.outFile \o <<Header, Header>> ELSE f.outFile,
      console |-> echo(v, f.console, Header) ]

\* printf(verboseFlag ? header : ""); fprintf(outputFile, header) succeeds (ok) or not
writeHeader(v, f, ok) ==
    [ outFile |-> IF ok THEN Append(f.outFile, Header) ELSE f.outFile,
      console |-> echo(v, f.console, Header) ]

\* the flush loop started at i = 1
flushRowsFromOne(s, k) == SubSeq(s.dataBuffers, 2, k)

\* the flush without context.nBuff = 0
flushNoReset(s) == s

\* the rows the loop over context.dataBuffers[0 .. nBuff-1] writes when the
\* first k calls of fprintf succeed
flushRows(s, k) == SubSeq(s.dataBuffers, 1, k)

\* context.nBuff = 0 after the loop
flushReset(s) == [s EXCEPT !.nBuff = 0]

\* the flush loop going on to the rows after the one whose fprintf failed
writeRowsAll(v, f, s, k) ==
    [ outFile |-> f.outFile \o flushRows(s, k) \o SubSeq(s.dataBuffers, k + 2, s.nBuff),
      console |-> echoAll(v, f.console, SubSeq(s.dataBuffers, 1, s.nBuff)) ]

\* the flush loop when the first k calls of fprintf succeed: each row is
\* printed before it is written, the row whose write fails included
writeRows(v, f, s, k) ==
    [ outFile |-> f.outFile \o flushRows(s, k),
      console |-> echoAll(v, f.console, SubSeq(s.dataBuffers, 1, Min(k + 1, s.nBuff))) ]

\* fclose that leaves the stream open
fcloseNothing(r, stream) == r

fclose(r, stream) == [r EXCEPT ![stream] = "closed"]

XML_ParserFree(r) == [r EXCEPT !.parser = "freed"]

\* fclose(inputFile); fclose(outputFile); XML_ParserFree(parser);
closeAll(r) == XML_ParserFree(fclose(fclose(r, "inputFile"), "outputFile"))

io == [outFile |-> outFile, console |-> console]

TwinIs(f, status) ==
    twin' = [outFile |-> f.outFile, console |-> f.console, exitStatus |-> status]

TwinExit(status) == twin' = [twin EXCEPT !.exitStatus = status]

\* two sessions as initData and initParserContext leave them
twoInit ==
    LET s0 == initParserContext(initData) IN
    [ sess |-> [a |-> s0, b |-> s0], alone |-> [a |-> s0, b |-> s0],
      open |-> [a |-> <<>>, b |-> <<>>], n |-> [a |-> 0, b |-> 0],
      last |-> "none", switches |-> 0 ]

InitWith(families) ==
    /\ pc = "args"
    /\ exitStatus = "running"
    /\ exitPath = "none"
    /\ family \in families
    /\ argv \in Argvs(family)
    /\ verboseFlag = FALSE
    /\ remaining \in InputLens(family)
    /\ bytesRead = 0
    /\ sess = initParserContext(initData)
    /\ ref = sess
    /\ open = <<>>
    /\ rootDone = FALSE
    /\ outFile = <<>>
    /\ console = <<>>
    /\ twin = [outFile |-> <<>>, console |-> <<>>, exitStatus |-> "running"]
    /\ res = [inputFile |-> "none", outputFile |-> "none", parser |-> "none"]
    /\ events = <<>>
    /\ emitted = <<>>
    /\ emittedBefore = 0
    /\ rowChunk = <<>>
    /\ chunkNo = 0
    /\ expectRows = 0
    /\ expect = <<>>
    /\ odd = FALSE
    /\ tm \in Times
    /\ two = twoInit

Init == InitWith(Families)

\* a run over a document with repeated attribute keys
InitDup == InitWith({"dup"})

\* the scan of the arguments and the checks on them, up to initParserContext
ParseArgs ==
    /\ pc = "args"
    /\ verboseFlag' = verboseScan(argv)
    /\ LET check == argCheck(argv)
           other == argCheck(ToggleV(argv))
       IN  /\ console' = IF check = "help" THEN Append(console, Usage) ELSE console
           /\ IF check = "ok"
              THEN pc' = "fopen_in" /\ UNCHANGED <<exitStatus, exitPath>>
              ELSE Exit(StatusOf(check), check)
           /\ twin' = [twin EXCEPT !.exitStatus = StatusOf(other),
                                   !.console = IF other = "help" THEN Append(@, Usage) ELSE @]
    /\ UNCHANGED <<inputVars, remaining, bytesRead, sess, ref, open, rootDone, outFile, res,
                   events, emitted, emittedBefore, rowChunk, chunkNo, expectRows, expect, odd>>

OpenInput ==
    /\ pc = "fopen_in"
    /\ \/ /\ pc' = "fopen_out"
          /\ res' = [res EXCEPT !.inputFile = "open"]
          /\ UNCHANGED <<exitStatus, exitPath, twin>>
       \/ /\ Exit("EXIT_FAILURE", "input_open")
          /\ TwinExit("EXIT_FAILURE")
          /\ UNCHANGED res
    /\ UNCHANGED <<inputVars, verboseFlag, remaining, bytesRead, sess, ref, open, rootDone,
                   outFile, console, events, emitted, emittedBefore, rowChunk, chunkNo,
                   expectRows, expect, odd>>

\* fopen of the output file, then XML_ParserCreate and the handler registration
OpenOutput ==
    /\ pc = "fopen_out"
    /\ \/ /\ pc' = "header"
          /\ res' = [res EXCEPT !.outputFile = "open", !.parser = "created"]
          /\ UNCHANGED <<exitStatus, exitPath, twin>>
       \/ /\ Exit("EXIT_FAILURE", "output_open")
          /\ TwinExit("EXIT_FAILURE")
          /\ res' = fclose(res, "inputFile")
    /\ UNCHANGED <<inputVars, verboseFlag, remaining, bytesRead, sess, ref, open, rootDone,
                   outFile, console, events, emitted, emittedBefore, rowChunk, chunkNo,
                   expectRows, expect, odd>>

WriteHeader ==
    /\ pc = "header"
    /\ \E ok \in BOOLEAN :
         LET w == writeHeader(verboseFlag, io, ok)
             tw == writeHeader(~verboseFlag, twin, ok)
         IN  /\ outFile' = w.outFile
             /\ console' = w.console
             /\ IF ok
                THEN /\ pc' = "fread"
                     /\ TwinIs(tw, twin.exitStatus)
                     /\ UNCHANGED <<exitStatus, exitPath, res>>
                ELSE /\ Exit("EXIT_FAILURE", "header_write")
                     /\ TwinIs(tw, "EXIT_FAILURE")
                     /\ res' = closeAll(res)
    /\ UNCHANGED <<inputVars, verboseFlag, remaining, bytesRead, sess, ref, open, rootDone,
                   events, emitted, emittedBefore, rowChunk, chunkNo, expectRows, expect, odd>>

Fread ==
    /\ pc = "fread"
    /\ bytesRead' = Min(remaining, BUF_SIZE)
    /\ remaining' = remaining - bytesRead'
    /\ pc' = IF bytesRead' > 0 THEN "parse" ELSE "cleanup"
    /\ chunkNo' = IF bytesRead' > 0 THEN chunkNo + 1 ELSE chunkNo
    /\ UNCHANGED <<exitStatus, exitPath, inputVars, verboseFlag, sess, ref, open, rootDone,
                   outFile, console, twin, res, events, emitted, emittedBefore, rowChunk,
                   expectRows, expect, odd>>

\* the labels of the open elements from the category element down, with the
\* category's typ value after its name
DocLabels(els) ==
    LET c == CHOOSE i \in 1..Len(els) : els[i].cat
    IN  <<els[c].name>> \o els[c].typ \o [i \in 1..(Len(els) - c) |-> els[c + i].name]

\* the value of the last nazwa attribute delivered so far
RECURSIVE EmitorName(_)
EmitorName(evs) ==
    IF evs = <<>> THEN UNINIT
    ELSE LET e == evs[Len(evs)]
             nazwa == Keyed(e.attr, "nazwa")
         IN  IF e.kind = "start" /\ e.name = "emitor" /\ nazwa # {}
             THEN e.attr[CHOOSE i \in nazwa : \A j \in nazwa : j <= i][2]
             ELSE EmitorName(SubSeq(evs, 1, Len(evs) - 1))

\* XML_Parse delivers a start tag of the chunk to startElement
StartElement ==
    /\ pc = "parse"
    /\ ~rootDone
    /\ \E ev \in AnyStarts \cup RowsStarts(Len(open)) \cup DeepStarts(Len(open)) \cup DupStarts
                  \cup LongStarts(Len(open)) :
         /\ Allowed(ev)
         /\ \E next \in { <<startElement(sess, ev.name, ev.attr, tm, o),
                              startElement(ref, ev.name, ev.attr, tm, o)>> : o \in UBOutcomes } :
              /\ sess' = next[1]
              /\ ref' = next[2]
         /\ open' = Append(open, [name |-> ev.name,
                                  nTagsAtOpen |-> sess.nTags,
                                  cat |-> ev.name \in tagFirstNames /\ ~InCategory,
                                  typ |-> IF Keyed(ev.attr, "typ") = {} THEN <<>>
                                          ELSE <<ev.attr[First(Keyed(ev.attr, "typ"))][2]>>])
         /\ events' = Append(events, [kind |-> "start", name |-> ev.name, attr |-> ev.attr])
         /\ expectRows' = expectRows + (IF InCategory /\ ev.name \in tagNames THEN 1 ELSE 0)
         /\ odd' = (odd \/ (InCategory /\ ev.name \in tagFirstNames \cup {"emitor"}))
    /\ emitted' = emitted \o SubSeq(sess'.dataBuffers, sess.nBuff + 1, sess'.nBuff)
    /\ rowChunk' = rowChunk \o [i \in 1..(sess'.nBuff - sess.nBuff) |-> chunkNo]
    /\ expect' = expect \o [i \in 1..(sess'.nBuff - sess.nBuff) |->
                              [ emitor |-> sess'.emitor,
                                nTagsBefore |-> sess.nTags,
                                labels |-> SubSeq(sess'.tags, 1, sess'.nTags),
                                tagsValid |-> TagsValid(sess'),
                                pkt |-> LET attr == events'[Len(events')].attr IN
                                        IF Keyed(attr, "pkt") = {} THEN <<>>
                                        ELSE <<attr[First(Keyed(attr, "pkt"))][2]>>,
                                allocatedTags |-> sess'.allocatedTags,
                                odd |-> odd',
                                docEmitor |-> EmitorName(events'),
                                docLabels |-> IF InCategory THEN DocLabels(open') ELSE <<>> ]]
    /\ IF sess'.fault
       THEN Exit("SIGNAL", "handler_fault") /\ TwinExit("SIGNAL")
       ELSE UNCHANGED <<pc, exitStatus, exitPath, twin>>
    /\ UNCHANGED <<inputVars, verboseFlag, remaining, bytesRead, rootDone, outFile, console,
                   res, emittedBefore, chunkNo>>

\* XML_Parse delivers the end tag of the innermost open element to endElement
EndElement ==
    /\ pc = "parse"
    /\ open # <<>>
    /\ LET name == open[Len(open)].name IN
         /\ sess' = endElement(sess, name)
         /\ ref' = endElement(ref, name)
         /\ events' = Append(events, [kind |-> "end", name |-> name, attr |-> <<>>])
    /\ open' = SubSeq(open, 1, Len(open) - 1)
    /\ rootDone' = (Len(open) = 1)
    /\ odd' = (odd /\ ~open[Len(open)].cat)
    /\ UNCHANGED <<pc, exitStatus, exitPath, inputVars, verboseFlag, remaining, bytesRead,
                   outFile, console, twin, res, emitted, emittedBefore, rowChunk, chunkNo,
                   expectRows, expect>>

\* the error branch writing the pending rows before it returns
ParseErrorFlushes ==
    /\ pc = "parse"
    /\ Exit("EXIT_FAILURE", "parse_error")
    /\ TwinExit("EXIT_FAILURE")
    /\ res' = closeAll(res)
    /\ outFile' = outFile \o SubSeq(sess.dataBuffers, 1, sess.nBuff)
    /\ UNCHANGED <<inputVars, verboseFlag, remaining, bytesRead, sess, ref, open, rootDone,
                   console, events, emitted, emittedBefore, rowChunk, chunkNo, expectRows,
                   expect, odd>>

\* XML_Parse meets a token that is not well-formed and returns XML_STATUS_ERROR
ParseError ==
    /\ pc = "parse"
    /\ Exit("EXIT_FAILURE", "parse_error")
    /\ TwinExit("EXIT_FAILURE")
    /\ res' = closeAll(res)
    /\ UNCHANGED <<inputVars, verboseFlag, remaining, bytesRead, sess, ref, open, rootDone,
                   outFile, console, events, emitted, emittedBefore, rowChunk, chunkNo,
                   expectRows, expect, odd>>

\* XML_Parse has consumed the chunk; isFinal is bytesRead < sizeof(buffer)
ParseReturn ==
    /\ pc = "parse"
    /\ IF bytesRead < BUF_SIZE /\ ~rootDone
       THEN Exit("EXIT_FAILURE", "parse_error") /\ TwinExit("EXIT_FAILURE")
                /\ res' = closeAll(res)
       ELSE pc' = "flush" /\ UNCHANGED <<exitStatus, exitPath, twin, res>>
    /\ UNCHANGED <<inputVars, verboseFlag, remaining, bytesRead, sess, ref, open, rootDone,
                   outFile, console, events, emitted, emittedBefore, rowChunk, chunkNo,
                   expectRows, expect, odd>>

\* the flush loop going on to the next chunk after a failed fprintf
FlushIgnoresFailure ==
    /\ pc = "flush"
    /\ \E k \in 0..sess.nBuff :
         LET w == writeRows(verboseFlag, io, sess, k)
             tw == writeRows(~verboseFlag, twin, sess, k)
         IN  /\ outFile' = w.outFile
             /\ console' = w.console
             /\ sess' = flushReset(sess)
             /\ pc' = "fread"
             /\ emittedBefore' = Len(emitted)
             /\ TwinIs(tw, twin.exitStatus)
             /\ UNCHANGED <<exitStatus, exitPath, res>>
    /\ UNCHANGED <<inputVars, verboseFlag, remaining, bytesRead, ref, open, rootDone,
                   events, emitted, rowChunk, chunkNo, expectRows, expect, odd>>

\* k rows are written before fprintf fails (k = nBuff: none fails)
Flush ==
    /\ pc = "flush"
    /\ \E k \in 0..sess.nBuff :
         LET w == writeRows(verboseFlag, io, sess, k)
             tw == writeRows(~verboseFlag, twin, sess, k)
         IN  /\ outFile' = w.outFile
             /\ console' = w.console
             /\ IF k = sess.nBuff
                THEN /\ sess' = flushReset(sess)
                     /\ pc' = "fread"
                     /\ emittedBefore' = Len(emitted)
                     /\ TwinIs(tw, twin.exitStatus)
                     /\ UNCHANGED <<exitStatus, exitPath, res>>
                ELSE /\ Exit("EXIT_FAILURE", "row_write")
                     /\ TwinIs(tw, "EXIT_FAILURE")
                     /\ res' = closeAll(res)
                     /\ UNCHANGED <<sess, emittedBefore>>
    /\ UNCHANGED <<inputVars, verboseFlag, remaining, bytesRead, ref, open, rootDone,
                   events, emitted, rowChunk, chunkNo, expectRows, expect, odd>>

\* freeMemmory(array, size) frees `array` itself size + 1 times
freeMemmory(valid, size, o) == (valid /\ size = 0) \/ o.acc # "crash"

\* the end of main(): both arrays freed, both files closed, the parser freed
Cleanup ==
    /\ pc = "cleanup"
    /\ \E o \in UBOutcomes :
         IF /\ freeMemmory(TRUE, sess.nBuff, o)
            /\ freeMemmory(TagsValid(sess), sess.nTags, o)
         THEN Exit("EXIT_SUCCESS", "success") /\ TwinExit("EXIT_SUCCESS")
                /\ res' = closeAll(res)
         ELSE Exit("SIGNAL", "free_fault") /\ TwinExit("SIGNAL") /\ UNCHANGED res
    /\ UNCHANGED <<inputVars, verboseFlag, remaining, bytesRead, sess, ref, open, rootDone,
                   outFile, console, events, emitted, emittedBefore, rowChunk, chunkNo,
                   expectRows, expect, odd>>

Next ==
    \/ ParseArgs
    \/ OpenInput
    \/ OpenOutput
    \/ WriteHeader
    \/ Fread
    \/ StartElement
    \/ EndElement
    \/ ParseError
    \/ ParseReturn
    \/ Flush
    \/ Cleanup

Spec == Init /\ [][Next]_vars

\* the same program with the callbacks handed repeated attribute keys
SpecDup == InitDup /\ [][Next]_vars

-----------------------------------------------------------------------------
(* Two sessions whose callbacks are interleaved *)

\* start events delivered to either session
TwoStarts ==
    { [name |-> "emitor", attr |-> <<Attr("nazwa", "K3")>>],
      [name |-> "status", attr |-> <<Attr("typ", "reka")>>],
      [name |-> "reka",   attr |-> <<Attr("pkt", "1012")>>] }

\* one callback on the session it is given as userData
handler(s, ev, o) ==
    IF ev.kind = "start" THEN startElement(s, ev.name, ev.attr, tm, o)
    ELSE endElement(s, ev.name)

\* a callback that keeps the current value in a variable both sessions share
handlerCallSharedValue(target, other, ev, o) ==
    LET t1 == handler(target, ev, o) IN <<t1, [other EXCEPT !.value = t1.value]>>

\* a callback on target while another session exists: the handlers reach
\* nothing but *userData
handlerCall(target, other, ev, o) == <<handler(target, ev, o), other>>

Other(w) == IF w = "a" THEN "b" ELSE "a"

TwoDeliver(w, ev, openAfter) ==
    /\ ~two.sess.a.fault /\ ~two.sess.b.fault
    /\ two.n[w] < MaxTwo
    /\ \E next \in { <<handlerCall(two.sess[w], two.sess[Other(w)], ev, o),
                         handler(two.alone[w], ev, o)>> : o \in UBOutcomes } :
         two' = [two EXCEPT !.sess = [@ EXCEPT ![w] = next[1][1], ![Other(w)] = next[1][2]],
                            !.alone = [@ EXCEPT ![w] = next[2]],
                            !.open = [@ EXCEPT ![w] = openAfter],
                            !.n = [@ EXCEPT ![w] = @ + 1],
                            !.last = w,
                            !.switches = IF two.last = Other(w) THEN Min(@ + 1, 2) ELSE @]
    /\ UNCHANGED mainVars

TwoStart ==
    \E w \in {"a", "b"}, ev \in TwoStarts :
        TwoDeliver(w, [kind |-> "start", name |-> ev.name, attr |-> ev.attr],
                   Append(two.open[w], ev.name))

TwoEnd ==
    \E w \in {"a", "b"} :
        /\ two.open[w] # <<>>
        /\ TwoDeliver(w, [kind |-> "end", name |-> two.open[w][Len(two.open[w])], attr |-> <<>>],
                      SubSeq(two.open[w], 1, Len(two.open[w]) - 1))

NextTwo == TwoStart \/ TwoEnd

InitTwo == InitWith({"two"})

SpecTwo == InitTwo /\ [][NextTwo]_vars

TypeOK ==
    /\ pc \in {"args", "fopen_in", "fopen_out", "header", "fread", "parse", "flush",
               "cleanup", "done"}
    /\ exitStatus \in {"running", "EXIT_SUCCESS", "EXIT_FAILURE", "SIGNAL"}
    /\ verboseFlag \in BOOLEAN
    /\ sess.nTags \in Int
    /\ Len(sess.tags) = sess.allocatedTags
    /\ Len(sess.dataBuffers) = sess.allocatedBuffers
    /\ Len(expect) = Len(emitted)

-----------------------------------------------------------------------------
(* Properties *)

\* -h is among the arguments
HelpRequested == \E i \in 1..Len(argv) : argv[i] = HELP_FLAG

S(name, attr) == [kind |-> "start", name |-> name, attr |-> attr]
E(name) == [kind |-> "end", name |-> name, attr |-> <<>>]

\* the document <emitor nazwa=e><status typ=t><reka pkt=v/></status></emitor>
LeafDoc(e, t, v) ==
    << S("emitor", <<Attr("nazwa", e)>>), S("status", <<Attr("typ", t)>>),
       S("reka", <<Attr("pkt", v)>>), E("reka"), E("status"), E("emitor") >>

IsPrefix(a, b) == Len(a) <= Len(b) /\ a = SubSeq(b, 1, Len(a))

DataRows == SubSeq(outFile, 2, Len(outFile))
PathValue(rows) == [i \in 1..Len(rows) |-> <<rows[i].path, rows[i].value>>]

\* C1: for every emitter name e, typ t and pkt value v, a run over
\* <emitor nazwa=e><status typ=t><reka pkt=v/></status></emitor> writes exactly
\* one data row, with path e.status.t.reka and value v (and does not end in a fault).
C1_OneRowPerLeaf ==
    \A e \in {"K3", LongName}, v \in {"1012", LongValue} :
        LET doc == LeafDoc(e, "reka", v) IN
        /\ (events = doc /\ exitStatus = "EXIT_SUCCESS")
             => PathValue(DataRows) = << <<e \o ".status.reka.reka", v>> >>
        /\ ~(exitPath = "handler_fault" /\ IsPrefix(events, doc))
        /\ ~(exitPath = "free_fault" /\ events = doc)

\* C1, for the names and values that fit the fixed-size fields only: holds.
C1_WhenStringsFit ==
    LET doc == LeafDoc("K3", "reka", "1012") IN
    /\ (events = doc /\ exitStatus = "EXIT_SUCCESS")
         => PathValue(DataRows) = << <<"K3.status.reka.reka", "1012">> >>
    /\ ~(exitPath = "handler_fault" /\ IsPrefix(events, doc))
    /\ ~(exitPath = "free_fault" /\ events = doc)

C2Doc == LeafDoc("K3", "reka", "1012")

\* C2 as stated: the input <emitor nazwa="K3"><status typ="reka"><reka pkt="1012"/>
\* </status></emitor> yields exactly one data row, K3.status.reka with value 1012.
C2_Original ==
    (events = C2Doc /\ exitStatus = "EXIT_SUCCESS")
        => PathValue(DataRows) = << <<"K3.status.reka", "1012">> >>

\* C2 as amended: that input yields exactly one data row, whose path is
\* K3.status.reka.reka (emitter, category, typ value, leaf name), with value 1012.
C2_Amended ==
    (events = C2Doc /\ exitStatus = "EXIT_SUCCESS")
        => PathValue(DataRows) = << <<"K3.status.reka.reka", "1012">> >>

C2_Witness == events = C2Doc /\ exitStatus = "EXIT_SUCCESS" /\ Len(outFile) = 2

\* C3: after every balanced sequence of events, the number of rows emitted is the
\* number of leaf-kind elements opened below a category element that was opened
\* outside any category (stated for the runs in which data->tags is intact).
C3_RowCount == (rootDone /\ TagsValid(sess)) => Len(emitted) = expectRows

C5_ChunkSplit ==
    exitStatus = "EXIT_SUCCESS"
        => PathValue(DataRows) = PathValue(SubSeq(ref.dataBuffers, 1, ref.nBuff))

C5_Witness ==
    /\ exitStatus = "EXIT_SUCCESS"
    /\ chunkNo >= 2
    /\ \E i, j \in 1..Len(rowChunk) : rowChunk[i] # rowChunk[j]

\* C6: whenever a flush has completed (before the next chunk is read, and on
\* the success exit) the buffer count is 0 and the output file is the header
\* followed by every emitted row exactly once, in emission order.
C6_FlushAll ==
    (pc \in {"fread", "cleanup"} \/ exitPath = "success")
        => sess.nBuff = 0 /\ outFile = <<Header>> \o emitted

C6_Witness ==
    /\ pc = "fread"
    /\ Len(emitted) >= 3
    /\ \E i, j \in 1..Len(rowChunk) : rowChunk[i] # rowChunk[j]

\* C7: a run whose input ends with the document truncated or unclosed (no
\* document element was closed by the end of the stream) does not exit with success.
C7_TruncatedFails == (exitStatus = "EXIT_SUCCESS" /\ ~HelpRequested) => rootDone

\* C8: when the tokenizer reports a parse error in chunk k, the output file is
\* the header and the rows of chunks 1..k-1; the rows buffered in chunk k are
\* not written.
C8_ErrorDropsChunk ==
    exitPath = "parse_error"
        => /\ exitStatus = "EXIT_FAILURE"
           /\ outFile = <<Header>> \o SubSeq(emitted, 1, emittedBefore)

C8_Witness ==
    /\ exitPath = "parse_error"
    /\ emittedBefore >= 1
    /\ Len(emitted) > emittedBefore

\* C9: the rows appended to the pending-row buffer in the current chunk read
\* back from entries 0..nBuff-1 in insertion order, however many were appended.
C9_BufferKeepsRows ==
    /\ pc \in {"parse", "flush"}
         => /\ sess.nBuff = Len(emitted) - emittedBefore
            /\ SubSeq(sess.dataBuffers, 1, sess.nBuff)
                 = SubSeq(emitted, emittedBefore + 1, Len(emitted))
    /\ ~ref.fault
         => /\ ref.nBuff = Len(emitted)
            /\ SubSeq(ref.dataBuffers, 1, ref.nBuff) = emitted

C9_Witness ==
    /\ pc = "flush"
    /\ sess.nBuff > ADD_BUFFOR
    /\ sess.allocatedBuffers = 2 * ADD_BUFFOR

\* C10: once the tag array has grown past its first ADD_TAG slots, data->tags
\* still refers to the live block, the one the growth step returned.
C10_TagsLiveAfterGrowth ==
    (sess.allocatedTags > ADD_TAG /\ sess.tagsPtr # WILD) => TagsValid(sess)

-----------------------------------------------------------------------------
(* The command line, the header, the exit status, the streams *)

\* the run has passed the header step
Started ==
    \/ pc \in {"fread", "parse", "flush", "cleanup"}
    \/ exitPath \in {"parse_error", "row_write", "handler_fault", "free_fault", "success"}

\* C11: once the output file has been opened and the header step is passed,
\* the first line of the file is the header, the header occurs nowhere else in
\* the file, no chunk was read and no row written before it, and this is so
\* whether or not rows follow (a run that ends in success has the header even
\* when it wrote no row).
C11_HeaderFirst ==
    /\ outFile # <<>>
         => /\ outFile[1] = Header
            /\ \A i \in 2..Len(outFile) : outFile[i] # Header
    /\ (chunkNo > 0 \/ Started) => (outFile # <<>> /\ outFile[1] = Header)
    /\ pc = "header" => (chunkNo = 0 /\ outFile = <<>> /\ res.outputFile = "open")

C11_Witness ==
    /\ exitStatus = "EXIT_SUCCESS"
    /\ Len(outFile) > 2
    /\ outFile[1] = Header
    /\ chunkNo >= 2

\* the file holds the header and every emitted row: every write succeeded
AllWritten == outFile = <<Header>> \o emitted

\* C12 as stated: the run exits with success only on clean completion (every
\* chunk fed, no tokenizer error, every write succeeded); it exits with failure on
\* too few arguments, on an input or output file that cannot be opened, on a
\* failed write and on a tokenizer error.
C12_Original ==
    /\ exitStatus = "EXIT_SUCCESS" => (remaining = 0 /\ AllWritten /\ exitPath = "success")
    /\ (pc = "done" /\ Len(argv) + 1 < MIN_ARGC + 1) => exitStatus = "EXIT_FAILURE"
    /\ exitPath \in {"input_open", "output_open", "header_write", "row_write", "parse_error"}
         => exitStatus = "EXIT_FAILURE"

\* C12 as amended: a run without -h among its arguments exits with success
\* only on clean completion (every chunk fed, no tokenizer error, every write
\* succeeded); it exits with failure on too few arguments when -h is not among
\* them, on an input or output file that cannot be opened, on a failed write and
\* on a tokenizer error.
C12_Amended ==
    /\ (exitStatus = "EXIT_SUCCESS" /\ ~HelpRequested)
         => (remaining = 0 /\ AllWritten /\ exitPath = "success")
    /\ (pc = "done" /\ Len(argv) + 1 < MIN_ARGC + 1 /\ ~HelpRequested)
         => exitStatus = "EXIT_FAILURE"
    /\ exitPath \in {"input_open", "output_open", "header_write", "row_write", "parse_error"}
         => exitStatus = "EXIT_FAILURE"

C12_Witness ==
    /\ exitStatus = "EXIT_SUCCESS"
    /\ ~HelpRequested
    /\ chunkNo >= 2
    /\ Len(outFile) >= 3

EndsWith(name, ext) ==
    Len(name) >= Len(ext) /\ SubSeq(name, Len(name) - Len(ext) + 1, Len(name)) = ext

\* C13: when the input file name does not end in .xml or the output file name
\* does not end in .csv, the run fails before any file is opened; a name that
\* only contains the extension elsewhere (d.xml.bak) is rejected.
C13_ExtensionRequired ==
    ( /\ pc # "args"
      /\ ~HelpRequested
      /\ Len(argv) >= I_OUTPUT_FILE
      /\ ~(EndsWith(argv[I_INPUT_FILE], XML_EXT) /\ EndsWith(argv[I_OUTPUT_FILE], CSV_EXT)) )
        => (exitStatus = "EXIT_FAILURE" /\ res.inputFile = "none")

\* C14: when any argument equals -h, the run prints the usage text and exits
\* with success, without opening a file and without feeding the tokenizer, also
\* when the other arguments are missing or invalid.
C14_HelpWins ==
    (HelpRequested /\ pc # "args")
        => /\ pc = "done"
           /\ exitStatus = "EXIT_SUCCESS"
           /\ console = <<Usage>>
           /\ res = [inputFile |-> "none", outputFile |-> "none", parser |-> "none"]
           /\ outFile = <<>>
           /\ chunkNo = 0
           /\ events = <<>>

C14_Witness ==
    /\ argv = <<TxtName, HELP_FLAG>>
    /\ exitStatus = "EXIT_SUCCESS"
    /\ console = <<Usage>>

\* -v occurs after the two file names only (or not at all), and -h nowhere
VAfterNames ==
    /\ Len(argv) >= I_OUTPUT_FILE
    /\ ~HelpRequested
    /\ \A i \in 1..Len(argv) : argv[i] = COMMUNICATS_FLAG => i > I_OUTPUT_FILE

\* C15: with -v given after the two file names, the flag changes the console
\* output only: the run with -v and the run without it, on the same input, write
\* the same file and end with the same status; the console receives the header
\* and each row when -v is set and nothing when it is not.
C15_VerboseOnlyConsole ==
    VAfterNames
        => LET loud == IF verboseFlag THEN console ELSE twin.console
               quiet == IF verboseFlag THEN twin.console ELSE console
           IN  /\ twin.outFile = outFile
               /\ twin.exitStatus = exitStatus
               /\ quiet = <<>>
               /\ IsPrefix(outFile, loud)
               /\ Len(loud) <= Len(outFile) + 1
               /\ exitStatus = "EXIT_SUCCESS" => loud = outFile

C15_Witness ==
    /\ argv = <<XmlName, CsvName, COMMUNICATS_FLAG>>
    /\ verboseFlag
    /\ exitStatus = "EXIT_SUCCESS"
    /\ Len(console) >= 3
    /\ console = outFile
    /\ twin.console = <<>>

\* C17: on every return of main() after the input file was opened (output
\* file not opened, header not written, tokenizer error, row not written,
\* normal completion) every opened file is closed and the tokenizer, if it was
\* created, is freed.
C17_AllReleased ==
    (pc = "done" /\ exitStatus \in {"EXIT_SUCCESS", "EXIT_FAILURE"})
        => /\ res.inputFile # "open"
           /\ res.outputFile # "open"
           /\ res.parser # "created"

C17_Witness ==
    /\ exitPath = "row_write"
    /\ res = [inputFile |-> "closed", outputFile |-> "closed", parser |-> "freed"]

-----------------------------------------------------------------------------
(* Rows and the tag stack *)

RECURSIVE Dotted(_, _)
Dotted(head, labels) ==
    IF labels = <<>> THEN head
    ELSE Dotted(head \o "." \o labels[1], SubSeq(labels, 2, Len(labels)))

\* C16: every emitted row has four fields: the date as YYYY-MM-DD with
\* zero-padded month and day, the hour 0..23 without a leading zero, the path
\* equal to the emitter name followed by "." and the label, for each label of the
\* tag stack in stack order, and the value (stated for the rows emitted after an
\* emitor element set the name).
C16_RowFormat ==
    \A i \in 1..Len(emitted) :
        /\ Len(emitted[i].date) = 10
        /\ emitted[i].hour \in {ToString(h) : h \in 0..23}
        /\ expect[i].emitor # UNINIT
             => emitted[i].path = Dotted(expect[i].emitor, expect[i].labels)

\* C16 for the rows emitted through a data->tags that refers to the live
\* block: holds.
C16_WhenTagsLive ==
    \A i \in 1..Len(emitted) :
        /\ Len(emitted[i].date) = 10
        /\ emitted[i].hour \in {ToString(h) : h \in 0..23}
        /\ (expect[i].emitor # UNINIT /\ expect[i].tagsValid)
             => emitted[i].path = Dotted(expect[i].emitor, expect[i].labels)

CatIndex == CHOOSE i \in 1..Len(open) : open[i].cat

\* the nesting depth relative to the open category element
RelDepth == IF InCategory THEN Len(open) - CatIndex + 1 ELSE 0

\* 1 when the open category element carries a typ attribute
TypCount == IF InCategory THEN Len(open[CatIndex].typ) ELSE 0

C19_SecondPopOnlyForCategory ==
    [][ sess'.nTags = sess.nTags - 2
          => (open[Len(open)].cat /\ open[Len(open)].typ # <<>>) ]_vars

\* C20: a row emitted while no emitor element and no element named status,
\* parametr or stezenie has been opened inside the open category element, and
\* the stack has never held more than ADD_TAG labels, has the path: current emitter name,
\* category name, the category's typ value if any, then the names of the open
\* elements below the category in nesting order, ending with the leaf.
C20_PathOfOpenElements ==
    \A i \in 1..Len(emitted) :
        ( /\ ~expect[i].odd
          /\ expect[i].allocatedTags <= ADD_TAG
          /\ expect[i].docEmitor # UNINIT )
            => emitted[i].path = Dotted(expect[i].docEmitor, expect[i].docLabels)

\* C20 for the emitter names that fit char emitor[STR_SIZE]: holds.
C20_WhenNameFits ==
    \A i \in 1..Len(emitted) :
        ( /\ ~expect[i].odd
          /\ expect[i].allocatedTags <= ADD_TAG
          /\ expect[i].docEmitor # UNINIT
          /\ Len(expect[i].docEmitor) < STR_SIZE )
            => emitted[i].path = Dotted(expect[i].docEmitor, expect[i].docLabels)

-----------------------------------------------------------------------------
(* The steps of startElement *)

\* this step delivered a start event, and the handler returned
StartStep ==
    /\ Len(events') = Len(events) + 1
    /\ events'[Len(events')].kind = "start"
    /\ ~sess'.fault

\* the name of the element that event opened
StartName == events'[Len(events')].name

\* C21: an element named status, parametr or stezenie is handled as a
\* category (name pushed, then the first typ value as a second label) only when
\* the tag stack is empty; at a non-empty stack exactly one label, the name, is
\* pushed and the typ attribute is not.
C21_CategoryOnlyAtEmptyStack ==
    [][ (StartStep /\ StartName \in tagFirstNames)
          => LET typ == open'[Len(open')].typ IN
             IF sess.nTags = 0
             THEN /\ sess'.nTags = 1 + Len(typ)
                  /\ SubSeq(sess'.tags, 1, sess'.nTags) = <<StartName>> \o typ
             ELSE /\ sess'.nTags = sess.nTags + 1
                  /\ SubSeq(sess'.tags, 1, sess'.nTags)
                       = Append(SubSeq(sess.tags, 1, sess.nTags), StartName) ]_vars

C21_Witness ==
    /\ Len(open) = 2
    /\ open[1].cat
    /\ open[2].name \in tagFirstNames
    /\ open[2].typ # <<>>
    /\ ~sess.fault
    /\ sess.nTags = 2
    /\ sess.tags[2] = open[2].name

\* C22: at a non-empty tag stack a start event for any element other than
\* emitor pushes exactly one label, the element name, whether or not the name
\* is a leaf kind; a row is appended in that step if and only if the name is
\* one of auto, reka, wartosc, status, niepewnosc, standard.
C22_NestedPush ==
    [][ (StartStep /\ StartName # "emitor" /\ sess.nTags # 0)
          => /\ sess'.nTags = sess.nTags + 1
             /\ SubSeq(sess'.tags, 1, sess'.nTags)
                  = Append(SubSeq(sess.tags, 1, sess.nTags), StartName)
             /\ sess'.nBuff = sess.nBuff + (IF StartName \in tagNames THEN 1 ELSE 0)
             /\ Len(emitted') = Len(emitted) + (IF StartName \in tagNames THEN 1 ELSE 0) ]_vars

C22_Witness ==
    /\ Len(open) >= 4
    /\ open[Len(open) - 1].name = "opis"
    /\ open[Len(open)].name = "wartosc"
    /\ sess.nTags = Len(open)
    /\ sess.nBuff >= 1
    /\ ~sess.fault

\* C23: the value field of every emitted row is the pkt value of the element
\* whose start event triggered the row; a row whose element has no pkt
\* attribute does not carry the pkt value of an earlier leaf.
C23_ValueOfTriggeringLeaf ==
    \A i \in 1..Len(emitted) :
        IF expect[i].pkt # <<>>
        THEN emitted[i].value = expect[i].pkt[1]
        ELSE \A j \in 1..(i - 1) :
                 expect[j].pkt # <<>> => emitted[i].value # expect[j].pkt[1]

\* C23 for the rows whose element carries a pkt attribute: holds.
C23_WhenPktPresent ==
    \A i \in 1..Len(emitted) :
        expect[i].pkt # <<>> => emitted[i].value = expect[i].pkt[1]

\* C24: a start event for an emitor element changes the emitter name only: the
\* tag stack (data->tags, its labels and the count), the current value and the
\* pending-row buffer are as they were, at every depth.
C24_EmitorFrame ==
    [][ (StartStep /\ StartName = "emitor")
          => sess' = [sess EXCEPT !.emitor = sess'.emitor] ]_vars

\* C24 for the names that fit char emitor[STR_SIZE]: holds.
C24_WhenNameFits ==
    [][ (StartStep /\ StartName = "emitor" /\ Len(sess'.emitor) < STR_SIZE)
          => sess' = [sess EXCEPT !.emitor = sess'.emitor] ]_vars

\* C25: the emitter name of the session is at every moment the nazwa value of
\* the most recently opened emitor element, whether or not that element is
\* still open (end events do not change it), and it is the name every row
\* emitted after that element opened starts with.
C25_EmitorPersists ==
    /\ ~sess.fault => sess.emitor = EmitorName(events)
    /\ \A i \in 1..Len(emitted) :
         expect[i].docEmitor # UNINIT
            => /\ expect[i].emitor = expect[i].docEmitor
               /\ expect[i].tagsValid
                    => emitted[i].path = Dotted(expect[i].docEmitor, expect[i].labels)

C25_Witness ==
    /\ Len(emitted) >= 1
    /\ sess.nBuff >= 1
    /\ expect[Len(emitted)].docEmitor = "K3"
    /\ emitted[Len(emitted)].path = "K3.status.reka"
    /\ \A i \in 1..Len(open) : open[i].name # "emitor"
    /\ \E i \in 1..Len(events) : events[i].kind = "end" /\ events[i].name = "emitor"

\* the value of the first attribute with that key
FirstValue(attr, key) == attr[CHOOSE i \in Keyed(attr, key) : \A j \in Keyed(attr, key) : i <= j][2]

C26_TypAndPkt ==
    [][ StartStep
          => LET attr == events'[Len(events')].attr IN
             /\ (StartName \in tagFirstNames /\ sess.nTags = 0 /\ Keyed(attr, "typ") # {})
                  => sess'.tags[2] = FirstValue(attr, "typ")
             /\ (StartName \in tagNames /\ sess.nTags # 0 /\ Keyed(attr, "pkt") # {})
                  => sess'.value = FirstValue(attr, "pkt") ]_vars

\* this step delivered a start event (the handler may not have returned)
StartDelivered ==
    /\ Len(events') = Len(events) + 1
    /\ events'[Len(events')].kind = "start"

\* C27: a start event for an element with a leaf-kind name arriving at the
\* empty tag stack appends no row and raises no error: main() goes on, and the
\* handler, entered with data->tags intact, returns; for a name that is not a
\* category name as well it leaves the session as it was.
C27_LeafAtEmptyStack ==
    [][ (StartDelivered /\ StartName \in tagNames /\ sess.nTags = 0)
          => /\ sess'.nBuff = sess.nBuff
             /\ emitted' = emitted
             /\ TagsValid(sess) => (~sess'.fault /\ pc' = pc /\ exitStatus' = exitStatus)
             /\ StartName \notin tagFirstNames => sess' = sess ]_vars

C27_Witness ==
    /\ events # <<>>
    /\ events[Len(events)].kind = "start"
    /\ events[Len(events)].name = "reka"
    /\ Len(open) = 2
    /\ sess.nTags = 0
    /\ emitted = <<>>
    /\ pc = "parse"

CountWithinCapacity ==
    /\ sess.nTags <= sess.allocatedTags
    /\ sess.nBuff <= sess.allocatedBuffers

\* the capacity changes by the increment, in a step that appends to a full array
CapacityStep(count, capacity, increment, countAfter, capacityAfter) ==
    /\ capacityAfter \in {capacity, capacity + increment}
    /\ capacityAfter # capacity
         => /\ count = capacity
            /\ ~sess'.fault => countAfter = count + 1

C29_StoredTruncated ==
    /\ sess.emitor # UNINIT => Len(sess.emitor) < STR_SIZE
    /\ sess.value # UNINIT => Len(sess.value) < STR_SIZE
    /\ sess.tagsPtr # WILD

\* C30: a row emitted before any emitor element with a nazwa attribute has
\* opened uses the empty string as emitter name: its path is a dot followed by
\* the labels of the stack (stated for the rows read through a live data->tags).
C30_EmptyEmitor ==
    \A i \in 1..Len(emitted) :
        (expect[i].emitor = UNINIT /\ expect[i].tagsValid)
            => emitted[i].path = Dotted("", expect[i].labels)

-----------------------------------------------------------------------------
(* Sessions, rows, the loop of main() *)

C32_AtLeastTwoLabels ==
    \A i \in 1..Len(emitted) :
        /\ expect[i].nTagsBefore >= 1
        /\ Len(expect[i].labels) = expect[i].nTagsBefore + 1
        /\ \E head \in {expect[i].emitor, "", GARBAGE},
              labels \in {expect[i].labels, [j \in 1..Len(expect[i].labels) |-> GARBAGE]} :
                emitted[i].path = Dotted(head, labels)

C32_Witness ==
    \E i \in 1..Len(emitted) :
        /\ expect[i].nTagsBefore = 1
        /\ expect[i].tagsValid
        /\ expect[i].emitor # UNINIT
        /\ emitted[i].path = Dotted(expect[i].emitor, expect[i].labels)
        /\ i \in 1..(Len(outFile) - 1)

\* C34: when the write of a buffered row fails during a flush, the run stops
\* at that row with failure status: the file holds the header, the rows of the
\* earlier chunks and the rows of this buffer before the failing one, and no
\* row after it; nothing more is read or fed to the tokenizer.
C34_RowWriteFailureStops ==
    exitPath = "row_write"
        => /\ exitStatus = "EXIT_FAILURE"
           /\ pc = "done"
           /\ ~ENABLED Fread
           /\ ~ENABLED StartElement
           /\ \E n \in emittedBefore..(Len(emitted) - 1) :
                outFile = <<Header>> \o SubSeq(emitted, 1, n)

\* the second row of the second chunk fails while input is left to read
C34_Witness ==
    /\ exitPath = "row_write"
    /\ remaining > 0
    /\ emittedBefore >= 1
    /\ Len(outFile) = emittedBefore + 2
    /\ Len(emitted) >= emittedBefore + 3

\* C38: on the success exit path no storage block is released more than once:
\* the end of main() is reached only with the row-buffer count 0 and the tag
\* count 0, so the loop of freeMemmory runs zero times for either array.
C38_CleanupAtZeroCounts ==
    pc = "cleanup" => (sess.nBuff = 0 /\ sess.nTags = 0)

\* C38 for the row buffer alone: holds, the flush resets nBuff before every fread.
C38_BufferCountZero == pc = "cleanup" => sess.nBuff = 0

\* C36: for every finite input the read/feed/flush loop terminates, each
\* iteration consuming at least one byte or leaving the run, and the run ends
\* in the success exit or in a failure exit (stated for the runs whose
\* handlers returned: what ends a run at the end of main()).
C36_EndsInSuccessOrFailure ==
    (pc = "done" /\ exitPath # "handler_fault")
        => exitStatus \in {"EXIT_SUCCESS", "EXIT_FAILURE"}

\* C36, the loop alone: every fread that returns data takes at least one byte
\* off the input, and fread returning 0 leaves the loop.
C36_EachIterationConsumes ==
    [][ (pc = "fread" /\ pc' = "parse") => remaining' < remaining ]_vars

NoFileOpened == res = [inputFile |-> "none", outputFile |-> "none", parser |-> "none"]

VInNamePosition ==
    /\ Len(argv) >= I_OUTPUT_FILE
    /\ COMMUNICATS_FLAG \in {argv[I_INPUT_FILE], argv[I_OUTPUT_FILE]}

\* the run got past the checks of the command line
NamesAccepted == exitPath \notin {"help", "too_few", "bad_input_name", "bad_output_name"}

\* C35: the two file names are always taken from argument positions 1 and 2,
\* independent of flags: a -v in position 1 or 2 is treated as a file name and
\* makes the run fail the extension check before any file is opened, and a run
\* with fewer than two arguments after the program name fails without opening
\* any file.
C35_Original ==
    pc # "args"
        => /\ VInNamePosition
                => /\ exitStatus = "EXIT_FAILURE"
                   /\ exitPath \in {"bad_input_name", "bad_output_name"}
                   /\ NoFileOpened
           /\ Len(argv) < I_OUTPUT_FILE
                => (exitStatus = "EXIT_FAILURE" /\ NoFileOpened)
           /\ (Len(argv) >= I_OUTPUT_FILE /\ ~HelpRequested)
                => (NamesAccepted <=> ( /\ strstr(argv[I_INPUT_FILE], XML_EXT)
                                        /\ strstr(argv[I_OUTPUT_FILE], CSV_EXT) ))

\* C35 as amended: in a run without -h among its arguments the two file names
\* are taken from positions 1 and 2, independent of -v: a -v in position 1 or 2
\* is treated as a file name and makes the run fail the extension check before
\* any file is opened, and a run with fewer than two arguments after the
\* program name fails without opening any file.
C35_Amended ==
    (pc # "args" /\ ~HelpRequested)
        => /\ VInNamePosition
                => /\ exitStatus = "EXIT_FAILURE"
                   /\ exitPath \in {"bad_input_name", "bad_output_name"}
                   /\ NoFileOpened
           /\ Len(argv) < I_OUTPUT_FILE
                => (exitStatus = "EXIT_FAILURE" /\ exitPath = "too_few" /\ NoFileOpened)
           /\ Len(argv) >= I_OUTPUT_FILE
                => (NamesAccepted <=> ( /\ strstr(argv[I_INPUT_FILE], XML_EXT)
                                        /\ strstr(argv[I_OUTPUT_FILE], CSV_EXT) ))

\* -v before two well-formed names: the run stops at the name in position 1
C35_Witness ==
    /\ pc = "done"
    /\ argv = <<COMMUNICATS_FLAG, XmlName, CsvName>>
    /\ exitPath = "bad_input_name"
    /\ NoFileOpened

\* this step delivered an end event
EndStep ==
    /\ Len(events') = Len(events) + 1
    /\ events'[Len(events')].kind = "end"

\* the element that event closes
Closing == open[Len(open)]

C37_PathFitsOneTag ==
    \A i \in 1..Len(emitted) : Len(emitted[i].path) <= ONE_TAG_SIZE - 1

\* C37 for the documents whose labels are element names and short typ values,
\* at the depths the other families reach: holds.
C37_ShortLabels ==
    family # "long" => \A i \in 1..Len(emitted) : Len(emitted[i].path) <= ONE_TAG_SIZE - 1

====
